---- MODULE Spec2Model ----
(***************************************************************************)
(* The render sub-app runner of bevy_render2 (pipelined/bevy_render2/src/  *)
(* lib.rs): the per-frame stage sequence, the two world exchanges          *)
(* (extract, queue_worldsurgery) and the entity reservation that keeps     *)
(* render-world identifiers in step with the app world.                    *)
(*                                                                         *)
(* Worlds are objects named by an instance id; a place (the app_world      *)
(* slot, render_app.world, a local variable, a resource slot of a world)   *)
(* holds an instance id or None.  A Rust move empties the place moved from.*)
(***************************************************************************)
EXTENDS Integers, Sequences, FiniteSets, TLC

\* ------------------------------------------------------------------ bounds
MaxAppIds == 2      \* identifier slots the app world may issue
MaxExtra == 1       \* anonymous render-world entities per frame

\* --------------------------------------------------------------- constants
None == "none"
WorldIds == {"A", "R", "SR", "SA"}
RealApp == "A"
RealRender == "R"
ScratchRender == "SR"
ScratchApp == "SA"
Tags == {"RenderWorld", "ScratchRenderWorld", "AppWorld", "ScratchAppWorld"}

StageOrder == <<"Extract", "Prepare", "Queue", "PhaseSort", "Render", "Cleanup">>
RenderStage == {StageOrder[i] : i \in 1..Len(StageOrder)}

\* Faulty variant: no stage applies its buffers when its run ends.
apply_buffers_flag_AllOff(stage) == FALSE

\* Faulty variant: the Extract stage keeps the default flag too.
apply_buffers_flag_AllOn(stage) == TRUE

\* extract_stage.set_apply_buffers(false); every other stage keeps the default
apply_buffers_flag(stage) == stage # "Extract"

\* ---------------------------------------------------------------- Entities
\* meta: one entry per identifier slot ("invalid" = ArchetypeId::INVALID,
\* "valid" = the entity has a location); pending: the free list;
\* free_cursor: below Len(pending) when identifiers are reserved, negative when
\* the reservation goes beyond meta.
EmptyEntities == [meta |-> <<>>, pending |-> <<>>, free_cursor |-> 0]

reserve_entities(E, count) == [E EXCEPT !.free_cursor = @ - count]

RECURSIVE SetLocations(_, _, _)
SetLocations(meta, ids, loc) ==
    IF ids = <<>> THEN meta
    ELSE SetLocations([meta EXCEPT ![Head(ids) + 1] = loc], Tail(ids), loc)

flush(E, loc) ==
    LET grown == IF E.free_cursor >= 0 THEN E.meta
                 ELSE E.meta \o [i \in 1..(-E.free_cursor) |-> loc]
        new_free_cursor == IF E.free_cursor >= 0 THEN E.free_cursor ELSE 0
        drained == SubSeq(E.pending, new_free_cursor + 1, Len(E.pending))
    IN [meta |-> SetLocations(grown, drained, loc),
        pending |-> SubSeq(E.pending, 1, new_free_cursor),
        free_cursor |-> new_free_cursor]

flush_as_invalid(E) == flush(E, "invalid")

\* alloc: the identifier an anonymous spawn receives
alloc_id(E) ==
    IF E.pending # <<>> THEN E.pending[Len(E.pending)] ELSE Len(E.meta)

alloc(E) ==
    IF E.pending # <<>>
    THEN [E EXCEPT !.pending = SubSeq(@, 1, Len(@) - 1),
                   !.free_cursor = Len(E.pending) - 1]
    ELSE [E EXCEPT !.meta = Append(@, "invalid")]

\* swap_remove: the last element takes the place of the removed one
SwapRemove(s, i) ==
    IF i = Len(s) THEN SubSeq(s, 1, Len(s) - 1)
    ELSE SubSeq([s EXCEPT ![i] = s[Len(s)]], 1, Len(s) - 1)

alloc_at_without_replacement(E, id) ==
    IF id >= Len(E.meta)
    THEN LET pend == E.pending \o [i \in 1..(id - Len(E.meta)) |-> Len(E.meta) + i - 1]
         IN [meta |-> E.meta \o [i \in 1..(id + 1 - Len(E.meta)) |-> "invalid"],
             pending |-> pend,
             free_cursor |-> Len(pend)]
    ELSE IF \E i \in 1..Len(E.pending) : E.pending[i] = id
    THEN LET i == CHOOSE j \in 1..Len(E.pending) : E.pending[j] = id
         IN [E EXCEPT !.pending = SwapRemove(@, i), !.free_cursor = Len(E.pending) - 1]
    ELSE E

free(E, id) ==
    [meta |-> [E.meta EXCEPT ![id + 1] = "invalid"],
     pending |-> Append(E.pending, id),
     free_cursor |-> Len(E.pending) + 1]

clear(E) == EmptyEntities

\* ------------------------------------------------------------------- World
\* entities: the allocator; res: the resource slots that hold worlds;
\* marked: the entities that carry the component X
EmptyRes == [t \in Tags |-> None]
NewWorld == [entities |-> EmptyEntities, res |-> EmptyRes, marked |-> {}]

ValidIds(W) == {i \in 0..(Len(W.entities.meta) - 1) : W.entities.meta[i + 1] = "valid"}
InvalidIds(W) ==
    {i \in 0..(Len(W.entities.meta) - 1) :
        /\ W.entities.meta[i + 1] = "invalid"
        /\ \A j \in 1..Len(W.entities.pending) : W.entities.pending[j] # i}

\* World::flush: reserved entities get a location in the empty archetype
world_flush(W) == [W EXCEPT !.entities = flush(@, "valid")]

\* World::spawn: flush, alloc, then the entity gets its location
spawn(W) ==
    LET F == world_flush(W)
        id == alloc_id(F.entities)
        A == alloc(F.entities)
    IN [F EXCEPT !.entities = [A EXCEPT !.meta[id + 1] = "valid"]]

spawn_id(W) == alloc_id(world_flush(W).entities)

\* World::get_or_spawn: flush, alloc_at_without_replacement, spawn onto it
get_or_spawn(W, id) ==
    LET F == world_flush(W)
        A == alloc_at_without_replacement(F.entities, id)
    IN [F EXCEPT !.entities = [A EXCEPT !.meta[id + 1] = "valid"]]

despawn(W, id) ==
    [W EXCEPT !.entities = free(world_flush(W).entities, id), !.marked = @ \ {id}]

clear_entities(W) == [W EXCEPT !.entities = clear(@), !.marked = {}]

insert_resource(W, tag, v) == [W EXCEPT !.res[tag] = v]
remove_resource(W, tag) == [W EXCEPT !.res[tag] = None]

\* --------------------------------------------------------------- commands
\* A deferred mutation: Commands::get_or_spawn(id)
Cmd(id) == [op |-> "get_or_spawn", id |-> id]

apply_command(W, c) == get_or_spawn(W, c.id)

RECURSIVE apply_commands(_, _)
apply_commands(W, cmds) ==
    IF cmds = <<>> THEN W
    ELSE apply_commands(apply_command(W, Head(cmds)), Tail(cmds))

\* CommandQueue::apply: flush the world, then run and drain the queue
command_queue_apply(W, cmds) == apply_commands(world_flush(W), cmds)

\* ------------------------------------------------------------------- state
VARIABLES
    pc,                \* position of the sub-app runner closure
    app_world,         \* the app's world slot (app_world: &mut World)
    render_app_world,  \* render_app.world
    scratch_world,     \* local of extract / queue_worldsurgery
    render_world,      \* local of extract
    app_world_temp,    \* local of queue_worldsurgery
    meta_len,          \* local of the runner closure (0 outside a frame)
    worlds,            \* the world instances
    buffers,           \* per stage: the deferred mutations its systems queued
    running,           \* the stage whose systems are running, or None
    ran,               \* the systems of the running stage that have run
    done,              \* history: stages that have returned in this frame
    applied,           \* history: buffer applications of Extract and Queue
    last_len,          \* history: {the count the latest frame reserved}, {} before
    recount,           \* history: this frame's count differs from the frame before
    render_before,     \* history: render_app.world when extract() was entered
    exDirect,          \* history: ids Extract spawned onto through the loan
    exQueued,          \* history: ids Extract queued a spawn onto
    qMarked,           \* history: app entities Queue systems marked
    anon               \* history: ids anonymous render-world spawns received

vars == <<pc, app_world, render_app_world, scratch_world, render_world,
          app_world_temp, meta_len, worlds, buffers, running, ran, done, applied,
          last_len, recount, render_before, exDirect, exQueued, qMarked, anon>>

slots == <<app_world, render_app_world>>
locals == <<scratch_world, render_world, app_world_temp>>
stagevars == <<running, ran, done>>
history == <<last_len, recount, render_before, exDirect, exQueued, qMarked, anon>>

\* RenderPlugin::build: both scratch caches are initialised, the stage buffers
\* are empty, no frame has run
Init ==
    /\ pc = "idle"
    /\ app_world = RealApp
    /\ render_app_world = RealRender
    /\ scratch_world = None
    /\ render_world = None
    /\ app_world_temp = None
    /\ meta_len = 0
    /\ worlds = [w \in WorldIds |->
                    IF w = RealApp
                    THEN insert_resource(NewWorld, "ScratchRenderWorld", ScratchRender)
                    ELSE IF w = RealRender
                    THEN insert_resource(NewWorld, "ScratchAppWorld", ScratchApp)
                    ELSE NewWorld]
    /\ buffers = [s \in RenderStage |-> <<>>]
    /\ running = None
    /\ ran = {}
    /\ done = <<>>
    /\ applied = <<>>
    /\ last_len = {}
    /\ recount = FALSE
    /\ render_before = None
    /\ exDirect = {}
    /\ exQueued = {}
    /\ qMarked = {}
    /\ anon = {}

\* ------------------------------------------------- the app's own update
\* Between frames the app's schedule spawns and despawns app-world entities.
AppSpawn ==
    /\ pc = "idle"
    /\ \/ Len(worlds[app_world].entities.meta) < MaxAppIds
       \/ worlds[app_world].entities.pending # <<>>
    /\ worlds' = [worlds EXCEPT ![app_world] = spawn(@)]
    /\ UNCHANGED <<pc, slots, locals, meta_len, buffers, stagevars, applied, history>>

AppDespawn(id) ==
    /\ pc = "idle"
    /\ id \in ValidIds(worlds[app_world])
    /\ worlds' = [worlds EXCEPT ![app_world] = despawn(@, id)]
    /\ UNCHANGED <<pc, slots, locals, meta_len, buffers, stagevars, applied, history>>

\* ------------------------------------------------------- SystemStage::run
\* The stage starts: its systems may now run.
stage_begin(stage, next) ==
    /\ running' = stage
    /\ ran' = {}
    /\ pc' = next
    /\ UNCHANGED done

\* One entry of the application history (kept for Extract and Queue).
Logged(stage, w, at) ==
    IF stage \in {"Extract", "Queue"}
    THEN Append(applied, [stage |-> stage, world |-> w, some |-> (buffers[stage] # <<>>),
                          at |-> at, in_slot |-> (w = render_app_world)])
    ELSE applied

\* SystemStage::apply_buffers: every system's queue is applied to w and drained
stage_apply_buffers(stage, w, at) ==
    /\ worlds' = [worlds EXCEPT ![w] = command_queue_apply(@, buffers[stage])]
    /\ buffers' = [buffers EXCEPT ![stage] = <<>>]
    /\ applied' = Logged(stage, w, at)

\* The stage's systems have finished; the buffers are applied to the world the
\* stage ran on when its flag says so, and run() returns.
stage_end(stage, w, next) ==
    /\ running' = None
    /\ done' = Append(done, stage)
    /\ pc' = next
    /\ ran' = ran
    /\ IF apply_buffers_flag(stage)
       THEN stage_apply_buffers(stage, w, pc)
       ELSE UNCHANGED <<worlds, buffers, applied>>

\* --------------------------------------------- the sub-app runner closure
\* Faulty variant: the count is taken in the first frame and reused afterwards.
Reserve_Stale ==
    /\ pc = "idle"
    /\ pc' = "flush"
    /\ meta_len' = IF last_len = {} THEN Len(worlds[app_world].entities.meta)
                   ELSE CHOOSE n \in last_len : TRUE
    /\ worlds' = [worlds EXCEPT ![render_app_world].entities =
                     reserve_entities(@, meta_len')]
    /\ UNCHANGED <<done, applied>>
    /\ last_len' = {meta_len'}
    /\ recount' = (last_len # {} /\ last_len # {Len(worlds[app_world].entities.meta)})
    /\ UNCHANGED <<render_before, exDirect, exQueued, qMarked, anon>>
    /\ UNCHANGED <<slots, locals, buffers, running, ran>>

\* Faulty variant: the reservation stops one identifier short.
Reserve_Short ==
    /\ pc = "idle"
    /\ pc' = "flush"
    /\ meta_len' = Len(worlds[app_world].entities.meta)
    /\ worlds' = [worlds EXCEPT ![render_app_world].entities =
                     reserve_entities(@, IF meta_len' > 0 THEN meta_len' - 1 ELSE 0)]
    /\ UNCHANGED <<done, applied>>
    /\ last_len' = {Len(worlds[app_world].entities.meta)}
    /\ recount' = (last_len # {} /\ last_len # {Len(worlds[app_world].entities.meta)})
    /\ UNCHANGED <<render_before, exDirect, exQueued, qMarked, anon>>
    /\ UNCHANGED <<slots, locals, buffers, running, ran>>

\* let meta_len = app_world.entities().meta.len();
\* render_app.world.entities().reserve_entities(meta_len as u32);
Reserve ==
    /\ pc = "idle"
    /\ pc' = "flush"
    /\ meta_len' = Len(worlds[app_world].entities.meta)
    /\ worlds' = [worlds EXCEPT ![render_app_world].entities =
                     reserve_entities(@, Len(worlds[app_world].entities.meta))]
    /\ UNCHANGED <<done, applied>>
    /\ last_len' = {Len(worlds[app_world].entities.meta)}
    /\ recount' = (last_len # {} /\ last_len # {Len(worlds[app_world].entities.meta)})
    /\ UNCHANGED <<render_before, exDirect, exQueued, qMarked, anon>>
    /\ UNCHANGED <<slots, locals, buffers, running, ran>>

\* Faulty variant: the reserved identifiers are flushed the ordinary way.
FlushInvalid_Plain ==
    /\ pc = "flush"
    /\ pc' = "ex_take"
    /\ worlds' = [worlds EXCEPT ![render_app_world] = world_flush(@)]
    /\ UNCHANGED <<slots, locals, meta_len, buffers, stagevars, applied, history>>

\* render_app.world.entities_mut().flush_as_invalid();
FlushInvalid ==
    /\ pc = "flush"
    /\ pc' = "ex_take"
    /\ worlds' = [worlds EXCEPT ![render_app_world].entities = flush_as_invalid(@)]
    /\ UNCHANGED <<slots, locals, meta_len, buffers, stagevars, applied, history>>

\* ---------------------------------------------------------------- extract
\* Faulty variant: when the scratch world is absent the frame goes on without the
\* Extract step.
ExtractTake_Skip ==
    /\ pc = "ex_take"
    /\ render_before' = render_app_world
    /\ IF worlds[app_world].res["ScratchRenderWorld"] = None
       THEN /\ pc' = "prepare"
            /\ UNCHANGED <<worlds, scratch_world>>
       ELSE /\ pc' = "ex_swap"
            /\ scratch_world' = worlds[app_world].res["ScratchRenderWorld"]
            /\ worlds' = [worlds EXCEPT ![app_world] = remove_resource(@, "ScratchRenderWorld")]
    /\ UNCHANGED <<slots, render_world, app_world_temp, meta_len, buffers,
                   stagevars, applied, last_len, recount, exDirect, exQueued, qMarked, anon>>

\* let scratch_world = app_world.remove_resource::<ScratchRenderWorld>().unwrap();
ExtractTake ==
    /\ pc = "ex_take"
    /\ render_before' = render_app_world
    /\ IF worlds[app_world].res["ScratchRenderWorld"] = None
       THEN /\ pc' = "panicked"
            /\ UNCHANGED <<worlds, scratch_world>>
       ELSE /\ pc' = "ex_swap"
            /\ scratch_world' = worlds[app_world].res["ScratchRenderWorld"]
            /\ worlds' = [worlds EXCEPT ![app_world] = remove_resource(@, "ScratchRenderWorld")]
    /\ UNCHANGED <<slots, render_world, app_world_temp, meta_len, buffers,
                   stagevars, applied, last_len, recount, exDirect, exQueued, qMarked, anon>>

\* Faulty variant: the scratch world is loaned, render_app.world is left alone.
ExtractSwapIn_NoReplace ==
    /\ pc = "ex_swap"
    /\ pc' = "ex_loan"
    /\ render_world' = scratch_world
    /\ scratch_world' = None
    /\ UNCHANGED <<slots, app_world_temp, meta_len, worlds, buffers,
                   stagevars, applied, history>>

\* let render_world = std::mem::replace(&mut render_app.world, scratch_world.0);
ExtractSwapIn ==
    /\ pc = "ex_swap"
    /\ pc' = "ex_loan"
    /\ render_world' = render_app_world
    /\ render_app_world' = scratch_world
    /\ scratch_world' = None
    /\ UNCHANGED <<app_world, app_world_temp, meta_len, worlds, buffers,
                   stagevars, applied, history>>

\* app_world.insert_resource(RenderWorld(render_world));
ExtractLoan ==
    /\ pc = "ex_loan"
    /\ pc' = "ex_run"
    /\ worlds' = [worlds EXCEPT ![app_world] = insert_resource(@, "RenderWorld", render_world)]
    /\ render_world' = None
    /\ UNCHANGED <<slots, scratch_world, app_world_temp, meta_len, buffers,
                   stagevars, applied, history>>

\* extract.run(app_world);
ExtractRunStart ==
    /\ pc = "ex_run"
    /\ stage_begin("Extract", "ex_running")
    /\ recount' = FALSE
    /\ UNCHANGED <<slots, locals, meta_len, worlds, buffers, applied, last_len,
                   render_before, exDirect, exQueued, qMarked, anon>>

\* Faulty variant: the Extract buffers are applied when the stage returns, to the
\* world that sits in render_app.world at that moment.
ExtractRunEnd_ApplyToSlot ==
    /\ pc = "ex_running"
    /\ running' = None
    /\ done' = Append(done, "Extract")
    /\ pc' = "ex_unloan"
    /\ ran' = ran
    /\ stage_apply_buffers("Extract", render_app_world, pc)
    /\ UNCHANGED <<slots, locals, meta_len, history>>

ExtractRunEnd ==
    /\ pc = "ex_running"
    /\ stage_end("Extract", app_world, "ex_unloan")
    /\ UNCHANGED <<slots, locals, meta_len, history>>

\* Faulty variant: the loaned render world is read back but the resource is left
\* in the app world.
ExtractUnloan_Peek ==
    /\ pc = "ex_unloan"
    /\ IF worlds[app_world].res["RenderWorld"] = None
       THEN /\ pc' = "panicked"
            /\ UNCHANGED render_world
       ELSE /\ pc' = "ex_swap_back"
            /\ render_world' = worlds[app_world].res["RenderWorld"]
    /\ UNCHANGED <<slots, scratch_world, app_world_temp, meta_len, worlds, buffers,
                   stagevars, applied, history>>

\* let render_world = app_world.remove_resource::<RenderWorld>().unwrap();
ExtractUnloan ==
    /\ pc = "ex_unloan"
    /\ IF worlds[app_world].res["RenderWorld"] = None
       THEN /\ pc' = "panicked"
            /\ UNCHANGED <<worlds, render_world>>
       ELSE /\ pc' = "ex_swap_back"
            /\ render_world' = worlds[app_world].res["RenderWorld"]
            /\ worlds' = [worlds EXCEPT ![app_world] = remove_resource(@, "RenderWorld")]
    /\ UNCHANGED <<slots, scratch_world, app_world_temp, meta_len, buffers,
                   stagevars, applied, history>>

\* Faulty variant: the render world taken out of the loan is dropped, not swapped back.
ExtractSwapBack_Drop ==
    /\ pc = "ex_swap_back"
    /\ pc' = "ex_put"
    /\ scratch_world' = None
    /\ render_world' = None
    /\ UNCHANGED <<slots, app_world_temp, meta_len, worlds, buffers,
                   stagevars, applied, history>>

\* let scratch_world = std::mem::replace(&mut render_app.world, render_world.0);
ExtractSwapBack ==
    /\ pc = "ex_swap_back"
    /\ pc' = "ex_put"
    /\ scratch_world' = render_app_world
    /\ render_app_world' = render_world
    /\ render_world' = None
    /\ UNCHANGED <<app_world, app_world_temp, meta_len, worlds, buffers,
                   stagevars, applied, history>>

\* Faulty variant: the scratch world is dropped instead of being stored back.
ExtractPut_Forget ==
    /\ pc = "ex_put"
    /\ pc' = "ex_apply"
    /\ scratch_world' = None
    /\ UNCHANGED <<slots, render_world, app_world_temp, meta_len, worlds, buffers,
                   stagevars, applied, history>>

\* app_world.insert_resource(ScratchRenderWorld(scratch_world));
ExtractPut ==
    /\ pc = "ex_put"
    /\ pc' = "ex_apply"
    /\ worlds' = [worlds EXCEPT ![app_world] =
                     insert_resource(@, "ScratchRenderWorld", scratch_world)]
    /\ scratch_world' = None
    /\ UNCHANGED <<slots, render_world, app_world_temp, meta_len, buffers,
                   stagevars, applied, history>>

\* extract.apply_buffers(&mut render_app.world);
ExtractApply ==
    /\ pc = "ex_apply"
    /\ pc' = "prepare"
    /\ stage_apply_buffers("Extract", render_app_world, pc)
    /\ UNCHANGED <<slots, locals, meta_len, stagevars, history>>

\* ---------------------------------------------------------------- prepare
\* prepare.run(&mut render_app.world);
PrepareStart ==
    /\ pc = "prepare"
    /\ stage_begin("Prepare", "prepare_running")
    /\ exDirect' = {}
    /\ exQueued' = {}
    /\ render_before' = None
    /\ UNCHANGED <<slots, locals, meta_len, worlds, buffers, applied, last_len,
                   recount, qMarked, anon>>

\* Faulty variant: the runner goes from Prepare straight to PhaseSort.
PrepareEnd_SkipQueue ==
    /\ pc = "prepare_running"
    /\ stage_end("Prepare", render_app_world, "phase_sort")
    /\ UNCHANGED <<slots, locals, meta_len, history>>

PrepareEnd ==
    /\ pc = "prepare_running"
    /\ stage_end("Prepare", render_app_world, "q_take")
    /\ UNCHANGED <<slots, locals, meta_len, history>>

\* ----------------------------------------------------- queue_worldsurgery
\* Faulty variant: the scratch world is read from the cache but not removed from it.
QueueTake_Keep ==
    /\ pc = "q_take"
    /\ IF worlds[render_app_world].res["ScratchAppWorld"] = None
       THEN /\ pc' = "panicked"
            /\ UNCHANGED scratch_world
       ELSE /\ pc' = "q_swap"
            /\ scratch_world' = worlds[render_app_world].res["ScratchAppWorld"]
    /\ UNCHANGED <<slots, render_world, app_world_temp, meta_len, worlds, buffers,
                   stagevars, applied, history>>

\* let scratch_world = render_app.world.remove_resource::<ScratchAppWorld>().unwrap();
QueueTake ==
    /\ pc = "q_take"
    /\ IF worlds[render_app_world].res["ScratchAppWorld"] = None
       THEN /\ pc' = "panicked"
            /\ UNCHANGED <<worlds, scratch_world>>
       ELSE /\ pc' = "q_swap"
            /\ scratch_world' = worlds[render_app_world].res["ScratchAppWorld"]
            /\ worlds' = [worlds EXCEPT ![render_app_world] =
                             remove_resource(@, "ScratchAppWorld")]
    /\ UNCHANGED <<slots, render_world, app_world_temp, meta_len, buffers,
                   stagevars, applied, history>>

\* Faulty variant: the scratch world is swapped into render_app.world, as extract
\* does, instead of into app_world.
QueueSwapIn_RenderSlot ==
    /\ pc = "q_swap"
    /\ pc' = "q_loan"
    /\ app_world_temp' = render_app_world
    /\ render_app_world' = scratch_world
    /\ scratch_world' = None
    /\ UNCHANGED <<app_world, render_world, meta_len, worlds, buffers,
                   stagevars, applied, history>>

\* let app_world_temp = std::mem::replace(app_world, scratch_world.0);
QueueSwapIn ==
    /\ pc = "q_swap"
    /\ pc' = "q_loan"
    /\ app_world_temp' = app_world
    /\ app_world' = scratch_world
    /\ scratch_world' = None
    /\ UNCHANGED <<render_app_world, render_world, meta_len, worlds, buffers,
                   stagevars, applied, history>>

\* render_app.world.insert_resource(AppWorld(app_world_temp));
QueueLoan ==
    /\ pc = "q_loan"
    /\ pc' = "q_run"
    /\ worlds' = [worlds EXCEPT ![render_app_world] =
                     insert_resource(@, "AppWorld", app_world_temp)]
    /\ app_world_temp' = None
    /\ UNCHANGED <<slots, scratch_world, render_world, meta_len, buffers,
                   stagevars, applied, history>>

\* queue.run(&mut render_app.world);
QueueRunStart ==
    /\ pc = "q_run"
    /\ stage_begin("Queue", "q_running")
    /\ UNCHANGED <<slots, locals, meta_len, worlds, buffers, applied, history>>

QueueRunEnd ==
    /\ pc = "q_running"
    /\ stage_end("Queue", render_app_world, "q_unloan")
    /\ UNCHANGED <<slots, locals, meta_len, history>>

\* let app_world_temp = render_app.world.remove_resource::<AppWorld>().unwrap();
QueueUnloan ==
    /\ pc = "q_unloan"
    /\ IF worlds[render_app_world].res["AppWorld"] = None
       THEN /\ pc' = "panicked"
            /\ UNCHANGED <<worlds, app_world_temp>>
       ELSE /\ pc' = "q_swap_back"
            /\ app_world_temp' = worlds[render_app_world].res["AppWorld"]
            /\ worlds' = [worlds EXCEPT ![render_app_world] = remove_resource(@, "AppWorld")]
    /\ UNCHANGED <<slots, scratch_world, render_world, meta_len, buffers,
                   stagevars, applied, history>>

\* Faulty variant: the app world taken out of the loan is not put back in its slot.
QueueSwapBack_Keep ==
    /\ pc = "q_swap_back"
    /\ pc' = "q_put"
    /\ scratch_world' = app_world_temp
    /\ app_world_temp' = None
    /\ UNCHANGED <<slots, render_world, meta_len, worlds, buffers,
                   stagevars, applied, history>>

\* let scratch_world: World = std::mem::replace(app_world, app_world_temp.0);
QueueSwapBack ==
    /\ pc = "q_swap_back"
    /\ pc' = "q_put"
    /\ scratch_world' = app_world
    /\ app_world' = app_world_temp
    /\ app_world_temp' = None
    /\ UNCHANGED <<render_app_world, render_world, meta_len, worlds, buffers,
                   stagevars, applied, history>>

\* Faulty variant: the app-role scratch world is dropped instead of being stored
\* back.
QueuePut_Forget ==
    /\ pc = "q_put"
    /\ pc' = "q_apply"
    /\ scratch_world' = None
    /\ UNCHANGED <<slots, render_world, app_world_temp, meta_len, worlds, buffers,
                   stagevars, applied, history>>

\* Faulty variant: the app-role scratch world is stored into the app world.
QueuePut_IntoAppWorld ==
    /\ pc = "q_put"
    /\ pc' = "q_apply"
    /\ worlds' = [worlds EXCEPT ![app_world] =
                     insert_resource(@, "ScratchAppWorld", scratch_world)]
    /\ scratch_world' = None
    /\ UNCHANGED <<slots, render_world, app_world_temp, meta_len, buffers,
                   stagevars, applied, history>>

\* render_app.world.insert_resource(ScratchAppWorld(scratch_world));
QueuePut ==
    /\ pc = "q_put"
    /\ pc' = "q_apply"
    /\ worlds' = [worlds EXCEPT ![render_app_world] =
                     insert_resource(@, "ScratchAppWorld", scratch_world)]
    /\ scratch_world' = None
    /\ UNCHANGED <<slots, render_world, app_world_temp, meta_len, buffers,
                   stagevars, applied, history>>

\* queue.apply_buffers(app_world);
QueueApply ==
    /\ pc = "q_apply"
    /\ pc' = "phase_sort"
    /\ stage_apply_buffers("Queue", app_world, pc)
    /\ UNCHANGED <<slots, locals, meta_len, stagevars, history>>

\* ------------------------------------------- phase sort, render, cleanup
\* phase_sort.run(&mut render_app.world);
PhaseSortStart ==
    /\ pc = "phase_sort"
    /\ stage_begin("PhaseSort", "phase_sort_running")
    /\ qMarked' = {}
    /\ UNCHANGED <<slots, locals, meta_len, worlds, buffers, applied, last_len,
                   recount, render_before, exDirect, exQueued, anon>>

PhaseSortEnd ==
    /\ pc = "phase_sort_running"
    /\ stage_end("PhaseSort", render_app_world, "render")
    /\ UNCHANGED <<slots, locals, meta_len, history>>

\* render.run(&mut render_app.world);
RenderStart ==
    /\ pc = "render"
    /\ stage_begin("Render", "render_running")
    /\ UNCHANGED <<slots, locals, meta_len, worlds, buffers, applied, history>>

RenderEnd ==
    /\ pc = "render_running"
    /\ stage_end("Render", render_app_world, "cleanup")
    /\ UNCHANGED <<slots, locals, meta_len, history>>

\* cleanup.run(&mut render_app.world);
CleanupStart ==
    /\ pc = "cleanup"
    /\ stage_begin("Cleanup", "cleanup_running")
    /\ UNCHANGED <<slots, locals, meta_len, worlds, buffers, applied, history>>

CleanupEnd ==
    /\ pc = "cleanup_running"
    /\ stage_end("Cleanup", render_app_world, "clear")
    /\ UNCHANGED <<slots, locals, meta_len, history>>

\* Faulty variant: the frame ends without clearing the render world's entities.
ClearEntities_Skip ==
    /\ pc = "clear"
    /\ pc' = "idle"
    /\ meta_len' = 0
    /\ done' = <<>>
    /\ applied' = <<>>
    /\ anon' = {}
    /\ UNCHANGED <<slots, locals, worlds, buffers, running, ran, last_len, recount,
                   render_before, exDirect, exQueued, qMarked>>

\* Faulty variant: the entities of the app world are cleared instead.
ClearEntities_App ==
    /\ pc = "clear"
    /\ pc' = "idle"
    /\ worlds' = [worlds EXCEPT ![app_world] = clear_entities(@)]
    /\ meta_len' = 0
    /\ done' = <<>>
    /\ applied' = <<>>
    /\ anon' = {}
    /\ UNCHANGED <<slots, locals, buffers, running, ran, last_len, recount,
                   render_before, exDirect, exQueued, qMarked>>

\* render_app.world.clear_entities();
ClearEntities ==
    /\ pc = "clear"
    /\ pc' = "idle"
    /\ worlds' = [worlds EXCEPT ![render_app_world] = clear_entities(@)]
    /\ meta_len' = 0
    /\ done' = <<>>
    /\ applied' = <<>>
    /\ anon' = {}
    /\ UNCHANGED <<slots, locals, buffers, running, ran, last_len, recount,
                   render_before, exDirect, exQueued, qMarked>>

\* ------------------------------------------------- what the systems do
\* The world a running system sees as the render world: the loaned RenderWorld
\* resource during Extract, the world the stage runs on otherwise.
SeenRenderWorld ==
    IF running = "Extract" THEN worlds[app_world].res["RenderWorld"] ELSE render_app_world

\* Each system of a stage runs once per run of the stage.
CanRun(system) ==
    /\ running # None
    /\ system \notin ran

\* The app-world identifiers issued when this frame reserved
Issued == 0..(meta_len - 1)

RECURSIVE Ascending(_)
Ascending(S) ==
    IF S = {} THEN <<>>
    ELSE LET m == CHOOSE x \in S : \A y \in S : x <= y
         IN <<m>> \o Ascending(S \ {m})

RECURSIVE SpawnOnto(_, _)
SpawnOnto(W, ids) ==
    IF ids = <<>> THEN W ELSE SpawnOnto(get_or_spawn(W, Head(ids)), Tail(ids))

\* A system spawns an entity without naming an identifier (World::spawn).
SysSpawn ==
    /\ CanRun("spawn")
    /\ SeenRenderWorld # None
    /\ Cardinality(anon) < MaxExtra
    /\ ran' = ran \cup {"spawn"}
    /\ anon' = anon \cup {spawn_id(worlds[SeenRenderWorld])}
    /\ worlds' = [worlds EXCEPT ![SeenRenderWorld] = spawn(@)]
    /\ UNCHANGED <<pc, slots, locals, meta_len, buffers, running, done, applied,
                   last_len, recount, render_before, exDirect, exQueued, qMarked>>

\* A system queues deferred spawns onto app-world identifiers
\* (Commands::get_or_spawn): an Extract system onto any of them, a system of a
\* later stage onto all of them.
SysCommand(S) ==
    /\ CanRun("command")
    /\ S # {}
    /\ S \subseteq Issued
    /\ running = "Extract" \/ S = Issued
    /\ ran' = ran \cup {"command"}
    /\ buffers' = [buffers EXCEPT ![running] = @ \o [i \in 1..Cardinality(S) |->
                                                        Cmd(Ascending(S)[i])]]
    /\ exQueued' = IF running = "Extract" THEN exQueued \cup S ELSE exQueued
    /\ UNCHANGED <<pc, slots, locals, meta_len, worlds, running, done, applied,
                   last_len, recount, render_before, exDirect, qMarked, anon>>

\* An Extract system spawns onto app-world identifiers in the loaned render
\* world (ResMut<RenderWorld>, World::get_or_spawn).
ExtractDirect(S) ==
    /\ CanRun("direct")
    /\ running = "Extract"
    /\ SeenRenderWorld # None
    /\ S # {}
    /\ S \subseteq Issued
    /\ ran' = ran \cup {"direct"}
    /\ worlds' = [worlds EXCEPT ![SeenRenderWorld] = SpawnOnto(@, Ascending(S))]
    /\ exDirect' = exDirect \cup S
    /\ UNCHANGED <<pc, slots, locals, meta_len, buffers, running, done, applied,
                   last_len, recount, render_before, exQueued, qMarked, anon>>

\* A Queue system attaches the component X to app-world entities through the
\* loaned app world (ResMut<AppWorld>).
QueueMark(S) ==
    /\ CanRun("mark")
    /\ running = "Queue"
    /\ worlds[render_app_world].res["AppWorld"] # None
    /\ S # {}
    /\ S \subseteq ValidIds(worlds[worlds[render_app_world].res["AppWorld"]])
    /\ ran' = ran \cup {"mark"}
    /\ worlds' = [worlds EXCEPT ![worlds[render_app_world].res["AppWorld"]].marked =
                     @ \cup S]
    /\ qMarked' = qMarked \cup S
    /\ UNCHANGED <<pc, slots, locals, meta_len, buffers, running, done, applied,
                   last_len, recount, render_before, exDirect, exQueued, anon>>

Ids == 0..(MaxAppIds - 1)

Next ==
    \/ AppSpawn
    \/ \E id \in Ids : AppDespawn(id)
    \/ Reserve
    \/ FlushInvalid
    \/ ExtractTake
    \/ ExtractSwapIn
    \/ ExtractLoan
    \/ ExtractRunStart
    \/ ExtractRunEnd
    \/ ExtractUnloan
    \/ ExtractSwapBack
    \/ ExtractPut
    \/ ExtractApply
    \/ PrepareStart
    \/ PrepareEnd
    \/ QueueTake
    \/ QueueSwapIn
    \/ QueueLoan
    \/ QueueRunStart
    \/ QueueRunEnd
    \/ QueueUnloan
    \/ QueueSwapBack
    \/ QueuePut
    \/ QueueApply
    \/ PhaseSortStart
    \/ PhaseSortEnd
    \/ RenderStart
    \/ RenderEnd
    \/ CleanupStart
    \/ CleanupEnd
    \/ ClearEntities
    \/ SysSpawn
    \/ \E S \in SUBSET Ids : SysCommand(S)
    \/ \E S \in SUBSET Ids : ExtractDirect(S)
    \/ \E S \in SUBSET Ids : QueueMark(S)

Spec == Init /\ [][Next]_vars

\* ------------------------------------- systems that break the protocol
\* A system of the Extract or Queue stage removes the loan it was given
\* (World::remove_resource on RenderWorld / AppWorld); the loaned world is dropped.
SysRemoveLoan ==
    /\ CanRun("remove_loan")
    /\ running \in {"Extract", "Queue"}
    /\ LET w == IF running = "Extract" THEN app_world ELSE render_app_world
           tag == IF running = "Extract" THEN "RenderWorld" ELSE "AppWorld"
       IN /\ worlds[w].res[tag] # None
          /\ worlds' = [worlds EXCEPT ![w] = remove_resource(@, tag)]
    /\ ran' = ran \cup {"remove_loan"}
    /\ UNCHANGED <<pc, slots, locals, meta_len, buffers, running, done, applied, history>>

\* A system of a render stage removes the ScratchAppWorld resource of the world
\* it runs on.
SysRemoveScratch ==
    /\ CanRun("remove_scratch")
    /\ running \in {"Prepare", "PhaseSort", "Render", "Cleanup"}
    /\ worlds[render_app_world].res["ScratchAppWorld"] # None
    /\ worlds' = [worlds EXCEPT ![render_app_world] = remove_resource(@, "ScratchAppWorld")]
    /\ ran' = ran \cup {"remove_scratch"}
    /\ UNCHANGED <<pc, slots, locals, meta_len, buffers, running, done, applied, history>>

\* Between two frames a system of the app removes the ScratchRenderWorld resource.
AppRemoveScratch ==
    /\ pc = "idle"
    /\ worlds[app_world].res["ScratchRenderWorld"] # None
    /\ worlds' = [worlds EXCEPT ![app_world] = remove_resource(@, "ScratchRenderWorld")]
    /\ UNCHANGED <<pc, slots, locals, meta_len, buffers, stagevars, applied, history>>

FaultNext ==
    \/ Next
    \/ SysRemoveLoan
    \/ SysRemoveScratch
    \/ AppRemoveScratch

\* The plugin with systems that may remove the protocol's resources
FaultSpec == Init /\ [][FaultNext]_vars

\* ---------------------------------------------------------------- progress
\* One statement of the runner closure after the frame has started.  The closure
\* is straight-line code and every registered system completes, so the closure
\* always goes on to its next statement.
RunnerStep ==
    \/ FlushInvalid
    \/ ExtractTake \/ ExtractSwapIn \/ ExtractLoan \/ ExtractRunStart \/ ExtractRunEnd
    \/ ExtractUnloan \/ ExtractSwapBack \/ ExtractPut \/ ExtractApply
    \/ PrepareStart \/ PrepareEnd
    \/ QueueTake \/ QueueSwapIn \/ QueueLoan \/ QueueRunStart \/ QueueRunEnd
    \/ QueueUnloan \/ QueueSwapBack \/ QueuePut \/ QueueApply
    \/ PhaseSortStart \/ PhaseSortEnd
    \/ RenderStart \/ RenderEnd
    \/ CleanupStart \/ CleanupEnd
    \/ ClearEntities

LiveSpec == Spec /\ WF_vars(RunnerStep)

\* ================================================================ claims
\* Positions of the runner closure
BeforeExtractRun == {"flush", "ex_take", "ex_swap", "ex_loan", "ex_run"}
BetweenRunAndApply == {"ex_unloan", "ex_swap_back", "ex_put", "ex_apply"}
AfterExtract ==
    {"prepare", "prepare_running", "q_take", "q_swap", "q_loan", "q_run", "q_running",
     "q_unloan", "q_swap_back", "q_put", "q_apply", "phase_sort", "phase_sort_running",
     "render", "render_running", "cleanup", "cleanup_running", "clear"}

\* The places that hold a given world instance
Holders(w) ==
    (IF app_world = w THEN {<<"slot", "app_world", "-">>} ELSE {})
    \cup (IF render_app_world = w THEN {<<"slot", "render_app.world", "-">>} ELSE {})
    \cup (IF scratch_world = w THEN {<<"local", "scratch_world", "-">>} ELSE {})
    \cup (IF render_world = w THEN {<<"local", "render_world", "-">>} ELSE {})
    \cup (IF app_world_temp = w THEN {<<"local", "app_world_temp", "-">>} ELSE {})
    \cup {<<"res", p[1], p[2]>> :
            p \in {q \in WorldIds \X Tags : worlds[q[1]].res[q[2]] = w}}

ExtractApplications == SelectSeq(applied, LAMBDA e : e.stage = "Extract")
QueueApplications == SelectSeq(applied, LAMBDA e : e.stage = "Queue")

\* C1: in every frame the runner runs the six stages once each in the order
\* Extract, Prepare, Queue, PhaseSort, Render, Cleanup: the stages that have
\* returned are a prefix of that order, a running stage is the one right after
\* that prefix, all six have returned when the frame reaches clear_entities,
\* and a frame starts with none returned, so the first to run is Extract.
C1_StageOrder ==
    /\ Len(done) <= Len(StageOrder)
    /\ \A i \in 1..Len(done) : done[i] = StageOrder[i]
    /\ running # None =>
          /\ Len(done) < Len(StageOrder)
          /\ running = StageOrder[Len(done) + 1]
    /\ pc = "clear" => done = StageOrder /\ running = None
    /\ pc \in BeforeExtractRun \cup {"idle"} => done = <<>> /\ running = None

C1_Witness ==
    /\ pc = "clear"
    /\ done = StageOrder
    /\ anon # {}
    /\ worlds[app_world].marked # {}

\* C2: at every step each real world is held in exactly one place: the real
\* render world in render_app.world, in the app world's RenderWorld resource or
\* in extract's local; the real app world in the app_world slot, in the render
\* world's AppWorld resource or in queue_worldsurgery's local.
C2_OnePlace ==
    /\ Cardinality(Holders(RealRender)) = 1
    /\ Cardinality(Holders(RealApp)) = 1
    /\ Holders(RealRender) \subseteq
          {<<"slot", "render_app.world", "-">>, <<"local", "render_world", "-">>,
           <<"res", RealApp, "RenderWorld">>}
    /\ Holders(RealApp) \subseteq
          {<<"slot", "app_world", "-">>, <<"local", "app_world_temp", "-">>,
           <<"res", RealRender, "AppWorld">>}

C2_Witness ==
    /\ pc = "q_running"
    /\ Holders(RealApp) = {<<"res", RealRender, "AppWorld">>}
    /\ Holders(RealRender) = {<<"slot", "render_app.world", "-">>}
    /\ worlds[RealApp].marked # {}

\* C3: when extract() has returned, the app world holds no RenderWorld resource
\* and render_app.world is the real render world that was there when extract()
\* was entered, with every entity the Extract systems spawned through the loan.
C3_LoanRoundTrip ==
    pc = "prepare" =>
        /\ worlds[app_world].res["RenderWorld"] = None
        /\ render_app_world = render_before
        /\ render_app_world = RealRender
        /\ exDirect \subseteq ValidIds(worlds[render_app_world])

C3_Witness ==
    /\ pc = "prepare"
    /\ exDirect # {}
    /\ exDirect # exQueued

\* C4: the Extract stage's buffers are not applied when the stage's run ends;
\* they are applied once per frame, by extract()'s last statement, to the real
\* render world when it is back in render_app.world, before Prepare starts.
C4_ExtractBuffers ==
    /\ Len(ExtractApplications) <= 1
    /\ \A i \in 1..Len(ExtractApplications) :
          /\ ExtractApplications[i].world = RealRender
          /\ ExtractApplications[i].in_slot
          /\ ExtractApplications[i].at = "ex_apply"
    /\ pc \in BetweenRunAndApply =>
          /\ ExtractApplications = <<>>
          /\ exQueued # {} => buffers["Extract"] # <<>>
    /\ pc \in AfterExtract =>
          /\ Len(ExtractApplications) = 1
          /\ buffers["Extract"] = <<>>
    /\ pc = "prepare" => exQueued \subseteq ValidIds(worlds[RealRender])

C4_Witness ==
    /\ pc = "prepare"
    /\ Len(ExtractApplications) = 1
    /\ ExtractApplications[1].some
    /\ exQueued # {}

\* C5: the mutations Queue-stage systems deferred are applied to the app world,
\* by queue_worldsurgery()'s last statement, after the app world is back in its
\* slot, and not to the render world while the loan is active.
C5_QueueBuffersToApp ==
    \A i \in 1..Len(QueueApplications) :
        QueueApplications[i].some =>
            /\ QueueApplications[i].world = RealApp
            /\ QueueApplications[i].at = "q_apply"

\* C6: when queue_worldsurgery() has returned, every app-world entity a Queue
\* system marked through the loaned AppWorld carries the mark when read from
\* the app world, and the render world holds no AppWorld resource.
C6_SurgeryVisible ==
    pc = "phase_sort" =>
        /\ app_world = RealApp
        /\ qMarked \subseteq worlds[app_world].marked
        /\ qMarked \subseteq ValidIds(worlds[app_world])
        /\ worlds[render_app_world].res["AppWorld"] = None

C6_Witness ==
    /\ pc = "phase_sort"
    /\ qMarked # {}

\* C7: between frames the real render world has no entity and keeps its
\* resource slots; when the next Extract is about to run it has no valid entity.
C7_RenderCleared ==
    /\ pc = "idle" =>
          /\ render_app_world = RealRender
          /\ worlds[RealRender].entities.meta = <<>>
          /\ worlds[RealRender].marked = {}
          /\ worlds[RealRender].res["ScratchAppWorld"] = ScratchApp
    /\ pc \in BeforeExtractRun => ValidIds(worlds[RealRender]) = {}

C7_Witness ==
    /\ pc = "ex_run"
    /\ recount
    /\ worlds[app_world].marked # {}
    /\ worlds[RealRender].entities.meta # <<>>

\* C8: when the Extract stage is about to run, the loaned render world has at
\* least as many identifier slots as the app world has issued (despawned ones
\* counted), all of them invalid and none free, and the count reserved is the
\* one read in this frame.
C8_ReservedBeforeExtract ==
    pc = "ex_run" =>
        /\ worlds[app_world].res["RenderWorld"] = RealRender
        /\ meta_len = Len(worlds[app_world].entities.meta)
        /\ Len(worlds[RealRender].entities.meta) >= Len(worlds[app_world].entities.meta)
        /\ InvalidIds(worlds[RealRender]) = 0..(Len(worlds[RealRender].entities.meta) - 1)
        /\ worlds[RealRender].entities.free_cursor = 0

C8_Witness ==
    /\ pc = "ex_run"
    /\ recount
    /\ meta_len = MaxAppIds
    /\ worlds[app_world].entities.pending # <<>>

\* C9: after extract(), the render world's valid entities below the reserved
\* count are the identifiers Extract spawned onto and the other reserved ones
\* are still invalid; between frames the allocator is empty, and the next
\* frame's reservation starts from that empty state.
C9_ExtractSubset ==
    /\ pc = "prepare" =>
          /\ ValidIds(worlds[render_app_world]) \cap Issued = exDirect \cup exQueued
          /\ Issued \ (exDirect \cup exQueued) \subseteq InvalidIds(worlds[render_app_world])
    /\ pc = "idle" => worlds[render_app_world].entities = EmptyEntities
    /\ pc = "flush" =>
          worlds[render_app_world].entities =
              [meta |-> <<>>, pending |-> <<>>, free_cursor |-> 0 - meta_len]

C9_Witness ==
    /\ pc = "prepare"
    /\ exDirect \cup exQueued # {}
    /\ Issued \ (exDirect \cup exQueued) # {}
    /\ worlds[app_world].marked # {}

\* C10: an anonymous spawn in the render world after the frame's reservation and
\* invalid-flush never receives one of the reserved identifiers.
C10_AnonymousApart ==
    anon \cap Issued = {}

C10_Witness ==
    /\ running = "Extract"
    /\ anon # {}
    /\ exQueued # {}
    /\ Issued \ exQueued # {}

\* The world instances that some place of the program holds
LiveWorlds == {w \in WorldIds : Holders(w) # {}}

\* Positions at which the exchange of a role has stored its scratch world back
\* (or has not taken it yet)
RenderScratchHome ==
    {"idle", "flush", "ex_take", "ex_apply"} \cup AfterExtract
AppScratchHome ==
    {"idle"} \cup BeforeExtractRun \cup {"ex_running"} \cup BetweenRunAndApply
    \cup {"prepare", "prepare_running", "q_take", "q_apply", "phase_sort",
          "phase_sort_running", "render", "render_running", "cleanup",
          "cleanup_running", "clear"}

\* C11: taking and returning the scratch worlds creates and loses no world
\* instance: the instances held by the program are always exactly the four built
\* by the plugin, and once an exchange has stored its scratch world back, the cache
\* of that role holds the very instance that was taken from it.
C11_NoGrowth ==
    /\ LiveWorlds = {RealApp, RealRender, ScratchRender, ScratchApp}
    /\ pc \in RenderScratchHome =>
          /\ worlds[RealApp].res["ScratchRenderWorld"] = ScratchRender
          /\ Holders(ScratchRender) = {<<"res", RealApp, "ScratchRenderWorld">>}
    /\ pc \in AppScratchHome =>
          /\ worlds[RealRender].res["ScratchAppWorld"] = ScratchApp
          /\ Holders(ScratchApp) = {<<"res", RealRender, "ScratchAppWorld">>}

C11_Witness ==
    /\ pc = "ex_apply"
    /\ worlds[app_world].res["ScratchRenderWorld"] = ScratchRender
    /\ last_len # {}
    /\ worlds[RealApp].marked # {}

\* C12 as stated: the scratch cache slot of each role is never empty, the take
\* leaving a replacement behind.  remove_resource leaves nothing in the slot, so
\* this does not hold while an exchange is in progress.
C12_CacheNeverEmpty ==
    /\ worlds[RealApp].res["ScratchRenderWorld"] # None
    /\ worlds[RealRender].res["ScratchAppWorld"] # None

\* C12: the scratch cache slot of a role is empty exactly from the take of that
\* role's exchange until its scratch world is stored back, and holds a scratch
\* world at every other instant.
C12_CacheEmptyOnlyInExchange ==
    /\ worlds[RealApp].res["ScratchRenderWorld"] # None <=> pc \in RenderScratchHome
    /\ worlds[RealRender].res["ScratchAppWorld"] # None <=> pc \in AppScratchHome

C12_Witness ==
    /\ pc = "q_running"
    /\ worlds[RealRender].res["ScratchAppWorld"] = None
    /\ worlds[RealApp].res["ScratchRenderWorld"] # None
    /\ ran # {}

\* The world instances stored in a scratch cache
CachedScratch ==
    {worlds[o].res[tag] : o \in WorldIds, tag \in {"ScratchRenderWorld", "ScratchAppWorld"}}
    \ {None}

\* C13: a scratch world that is stored in the cache (ScratchRenderWorld after
\* Extract, ScratchAppWorld after Queue) contains zero entities, whatever the
\* systems of the Extract and Queue stages did.
C13_ScratchStoredEmpty ==
    \A w \in CachedScratch : ValidIds(worlds[w]) = {}

C13_Witness ==
    /\ pc = "ex_apply"
    /\ worlds[app_world].res["ScratchRenderWorld"] # None
    /\ exDirect # {}
    /\ buffers["Extract"] # <<>>
    /\ anon # {}

\* Positions of the Prepare, PhaseSort, Render and Cleanup steps and of the final
\* clear_entities
RenderOnlySteps ==
    {"prepare", "prepare_running", "phase_sort", "phase_sort_running",
     "render", "render_running", "cleanup", "cleanup_running", "clear"}

\* C14: once Extract has completed, no step of the Prepare, PhaseSort, Render and
\* Cleanup stages and not the final clear_entities changes the app world: its
\* entities, its resources and the slot that holds it stay as they are.
C14_AppWorldUntouched ==
    [][(pc \in RenderOnlySteps) =>
          (app_world = RealApp /\ app_world' = app_world
           /\ worlds'[RealApp] = worlds[RealApp])]_vars

C14_Witness ==
    /\ pc = "clear"
    /\ ValidIds(worlds[RealApp]) # {}
    /\ ValidIds(worlds[RealRender]) # {}
    /\ anon # {}
    /\ worlds[RealApp].marked # {}

\* A loan is active when some world holds the resource
RenderLoaned == \E w \in WorldIds : worlds[w].res["RenderWorld"] # None
AppLoaned == \E w \in WorldIds : worlds[w].res["AppWorld"] # None

\* Positions from the insertion of a loan to its removal: the statement before the
\* stage's run, the run, the statement after it
RenderLoanSteps == {"ex_run", "ex_running", "ex_unloan"}
AppLoanSteps == {"q_run", "q_running", "q_unloan"}

\* C15: the RenderWorld resource exists, in the app world, exactly around the run
\* of the Extract stage and the AppWorld resource, in the render world, exactly
\* around the run of the Queue stage; the two loans are never active together and
\* neither exists while Prepare, PhaseSort, Render or Cleanup runs or between
\* frames.
C15_LoansScoped ==
    /\ RenderLoaned <=> pc \in RenderLoanSteps
    /\ AppLoaned <=> pc \in AppLoanSteps
    /\ \A w \in WorldIds :
          /\ worlds[w].res["RenderWorld"] # None =>
                w = RealApp /\ worlds[w].res["RenderWorld"] = RealRender
          /\ worlds[w].res["AppWorld"] # None =>
                w = RealRender /\ worlds[w].res["AppWorld"] = RealApp
    /\ ~(RenderLoaned /\ AppLoaned)
    /\ running = "Extract" => RenderLoaned
    /\ running = "Queue" => AppLoaned
    /\ running \in {"Prepare", "PhaseSort", "Render", "Cleanup"} =>
          ~RenderLoaned /\ ~AppLoaned
    /\ pc = "idle" => ~RenderLoaned /\ ~AppLoaned

C15_Witness ==
    /\ running = "Queue"
    /\ AppLoaned
    /\ ~RenderLoaned
    /\ qMarked # {}
    /\ done = <<"Extract", "Prepare">>

\* Positions of the two exchanges, and those at which the relocated world is out of
\* its slot
ExtractSteps ==
    {"ex_take", "ex_swap", "ex_loan", "ex_run", "ex_running", "ex_unloan",
     "ex_swap_back", "ex_put", "ex_apply"}
QueueSteps ==
    {"q_take", "q_swap", "q_loan", "q_run", "q_running", "q_unloan",
     "q_swap_back", "q_put", "q_apply"}
RenderRelocated == {"ex_loan", "ex_run", "ex_running", "ex_unloan", "ex_swap_back"}
AppRelocated == {"q_loan", "q_run", "q_running", "q_unloan", "q_swap_back"}

\* C16: during the whole Extract exchange the app_world slot holds the real app
\* world, and render_app.world holds the render-role scratch world while the real
\* render world is relocated; during the whole Queue exchange render_app.world
\* holds the real render world, and app_world holds the app-role scratch world
\* while the real app world is relocated.
C16_OtherSlotKept ==
    /\ pc \in ExtractSteps =>
          /\ app_world = RealApp
          /\ render_app_world =
                (IF pc \in RenderRelocated THEN ScratchRender ELSE RealRender)
    /\ pc \in QueueSteps =>
          /\ render_app_world = RealRender
          /\ app_world = (IF pc \in AppRelocated THEN ScratchApp ELSE RealApp)

C16_Witness ==
    /\ pc = "q_running"
    /\ render_app_world = RealRender
    /\ app_world = ScratchApp
    /\ ValidIds(worlds[RealRender]) # {}

\* The resource that the step at the current position removes
Expected ==
    IF pc = "ex_take" THEN {<<app_world, "ScratchRenderWorld">>}
    ELSE IF pc = "ex_unloan" THEN {<<app_world, "RenderWorld">>}
    ELSE IF pc = "q_take" THEN {<<render_app_world, "ScratchAppWorld">>}
    ELSE IF pc = "q_unloan" THEN {<<render_app_world, "AppWorld">>}
    ELSE {}
ExpectedAbsent == \E e \in Expected : worlds[e[1]].res[e[2]] = None

\* A step of an aborted frame, and the step that aborts it
AbortStep ==
    /\ ExpectedAbsent => pc' = "panicked"
    /\ pc' = "panicked" =>
          /\ ExpectedAbsent \/ pc = "panicked"
          /\ done' = done /\ worlds' = worlds /\ slots' = slots /\ running' = None
    /\ pc = "panicked" => UNCHANGED vars

\* C17: when the resource a step of the exchange removes is absent, that step
\* aborts the frame: nothing runs after it, the frame is neither retried nor
\* continued, and no later stage of the frame, Render in particular, has run.
C17_AbortOnMissing ==
    /\ [](pc = "panicked" =>
             /\ running = None
             /\ \A i \in 1..Len(done) : done[i] # "Render"
             /\ Len(done) <= 3
             /\ done = SubSeq(StageOrder, 1, Len(done)))
    /\ [][AbortStep]_vars

C17_Witness ==
    /\ pc = "panicked"
    /\ done = <<"Extract", "Prepare", "Queue">>
    /\ worlds[render_app_world].res["AppWorld"] = None
    /\ "remove_loan" \in ran

\* The applications of a stage's buffers that applied some queued mutation
Effective(stage) ==
    {i \in 1..Len(applied) : applied[i].stage = stage /\ applied[i].some}

\* C18: when a stage starts, and all the while it runs, no mutation queued by
\* another stage is still unapplied: the only moment a finished stage has queued
\* mutations left is between the return of the Extract stage and
\* extract.apply_buffers, which precedes Prepare.  The queued mutations of a stage
\* are applied once: a second application of the same stage finds nothing, and
\* what Extract and Prepare queued is in the render world when the next stage
\* begins.
C18_NoStaleBuffers ==
    /\ pc \notin BetweenRunAndApply =>
          \A s \in RenderStage \ {running} : buffers[s] = <<>>
    /\ \A s \in {"Extract", "Queue"} : Cardinality(Effective(s)) <= 1
    /\ (pc = "prepare" /\ exQueued # {}) =>
          /\ Effective("Extract") # {}
          /\ exQueued \subseteq ValidIds(worlds[render_app_world])
    /\ (pc = "q_take" /\ "command" \in ran) =>
          Issued \subseteq ValidIds(worlds[render_app_world])

C18_Witness ==
    /\ pc = "q_take"
    /\ "command" \in ran
    /\ Effective("Extract") # {}
    /\ Issued # {}

\* C19: with systems that complete and remove no resource of the protocol, every
\* frame that has started reaches clear_entities with all six stages run, in
\* order, and then ends.
C19_FrameCompletes ==
    /\ []<>(pc = "idle")
    /\ [][(pc # "idle" /\ pc' = "idle") => (pc = "clear" /\ done = StageOrder)]_vars

C19_Witness ==
    /\ pc = "clear"
    /\ done = StageOrder
    /\ "command" \in ran
    /\ last_len # {}
    /\ ValidIds(worlds[render_app_world]) # {}

\* The state between two frames: both slots hold their real world, each real
\* world holds the scratch cache of the other role, nothing is on loan and the
\* closure's locals are gone
HomeState ==
    /\ app_world = RealApp
    /\ render_app_world = RealRender
    /\ worlds[RealApp].res["ScratchRenderWorld"] # None
    /\ worlds[RealRender].res["ScratchAppWorld"] # None
    /\ ~RenderLoaned /\ ~AppLoaned
    /\ scratch_world = None /\ render_world = None /\ app_world_temp = None

\* C20: at the start and at the end of every frame the state is the home state;
\* each scratch cache stays inside its owner while that owner is on loan; so the
\* reservation at the top of the frame and the two scratch takes act on the real
\* worlds and find their resource: no frame panics.
C20_HomeAtBoundary ==
    /\ pc \in {"idle", "flush", "ex_take"} => HomeState
    /\ pc \in RenderRelocated => worlds[RealRender].res["ScratchAppWorld"] = ScratchApp
    /\ pc \in AppRelocated => worlds[RealApp].res["ScratchRenderWorld"] = ScratchRender
    /\ pc = "ex_take" => worlds[app_world].res["ScratchRenderWorld"] # None
    /\ pc = "q_take" =>
          /\ render_app_world = RealRender /\ app_world = RealApp
          /\ worlds[render_app_world].res["ScratchAppWorld"] # None
    /\ pc # "panicked"

C20_Witness ==
    /\ pc = "idle"
    /\ HomeState
    /\ last_len # {}
    /\ worlds[RealApp].marked # {}
    /\ ValidIds(worlds[RealRender]) = {}

====
